---- MODULE Spec2Model ----
(***************************************************************************)
(* Model of the realtime voice-translation relay                           *)
(* (src/src/routes/realtime.ts) together with the parts of the storage     *)
(* service (src/src/services/dbService.ts) and of the object-storage       *)
(* service that endSession calls.                                          *)
(*                                                                         *)
(* Node runs every callback to its first real await without interruption,  *)
(* so one action is one callback segment: from the event (or from the      *)
(* completion of the awaited call) to the next await or to the return.     *)
(***************************************************************************)
EXTENDS Integers, Sequences, FiniteSets, TLC

\* ---------------------------------------------------------------- bounds
\* Spec: client frames / upstream frames handled per session
MaxClientMsgs == 3
MaxUpstreamFrames == 1
\* SpecDeltas: the same, with room for a sequence of upstream frames
DeltaClientMsgs == 2
DeltaUpstreamFrames == 2
\* upstream sockets created per session, `end` frames per session
MaxSockets == 1
\* budget of the repeated-setup profile
SetupClientMsgs == 2
SetupUpstreamFrames == 1
SetupSockets == 2
\* budget of the two-session profile: the first session, and its peer
PairClientMsgs == 2
PairUpstreamFrames == 1
PairSockets == 2
PeerClientMsgs == 1
MaxEnds == 1

\* ------------------------------------------------------------ input sets
Sessions == {"s1", "s2"}
NoUser == "null"
UserIds == {"u1"}
\* GEMINI_API_KEY: unset, set to a value `new WebSocket(url)` rejects, or valid
ApiKeys == {"unset", "invalid", "valid"}
\* (sourceLanguage, targetLanguage) of a setup frame; "" is a missing field
LangPairs == {<<"", "de">>, <<"fr", "">>}
AudioData == {"QQ==", "Qg=="}

\* ------------------------------------------------------------- variables
VARIABLES
    phase,        \* position of the 'connection' callback of each client
    clientWs,     \* readyState of the client socket
    sessions,     \* keys of the module-level `sessions` map
    session,      \* the RealtimeSession object of each connection
    sockets,      \* upstream WebSockets created for a session, in order
    clientOut,    \* frames sent on the client socket
    upstreamOut,  \* frames sent on upstream sockets: <<socket, frame>>
    upstreamIn,   \* upstream frames handled by handleGeminiMessage
    runs,         \* endSession invocations of a session, in start order
    interactions, \* rows of the interactions table
    voiceSessions,\* rows of the voice_sessions table
    env,          \* process environment: API key, object storage
    budget,       \* client / upstream frames and sockets still allowed
    crashed       \* an exception escaped an event listener

vars == <<phase, clientWs, sessions, session, sockets, clientOut, upstreamOut,
          upstreamIn, runs, interactions, voiceSessions, env, budget, crashed>>

\* --------------------------------------------------------------- helpers
RECURSIVE Concat(_)
Concat(ss) == IF ss = <<>> THEN <<>> ELSE Head(ss) \o Concat(Tail(ss))

\* mutant: the supplied value is taken as it is, empty or not
OrDefaultNone(x, dflt) == x

\* JavaScript `x || dflt` on strings: the empty (or missing) string is falsy
OrDefault(x, dflt) == IF x = "" THEN dflt ELSE x

\* Buffer.from(data, 'base64') on the payloads the model uses
B64Decode(d) ==
    CASE d = "QQ==" -> <<65>>
      [] d = "Qg==" -> <<66>>
      [] d = "Qw==" -> <<67>>
      [] OTHER -> <<>>

NoUrl == <<>>
NoId == 0
\* close code of a connection whose user id is not found
InvalidUserCode == 4002

\* ws: send() on a socket that is not OPEN (and not CONNECTING) is dropped
SendClient(s, frames) ==
    IF clientWs[s] = "OPEN"
    THEN [clientOut EXCEPT ![s] = @ \o frames]
    ELSE clientOut

\* mutant: the session object is created with a channel handle
NewSessionWithHandle(uid) ==
    [ userId |-> uid,
      geminiWs |-> 1,
      sourceLanguage |-> "en",
      targetLanguage |-> "hi",
      userTranscription |-> <<>>,
      modelTranscription |-> <<>>,
      userAudioChunks |-> <<>>,
      aiAudioChunks |-> <<>> ]

NewSession(uid) ==
    [ userId |-> uid,
      geminiWs |-> 0,
      sourceLanguage |-> "en",
      targetLanguage |-> "hi",
      userTranscription |-> <<>>,
      modelTranscription |-> <<>>,
      userAudioChunks |-> <<>>,
      aiAudioChunks |-> <<>> ]

\* value of the session object before the connection is accepted
NoSession == NewSession(NoUser)

\* what the environment may still do to a session: open its connection,
\* send client frames, deliver upstream frames, let it create sockets
Budget(msgs, frames, socks) ==
    [conns |-> 1, msgs |-> msgs, frames |-> frames, socks |-> socks]
NoBudget == [conns |-> 0, msgs |-> 0, frames |-> 0, socks |-> 0]

\* one connection with the given budget; the other session id stays unused
OneSession(msgs, frames, socks) ==
    [s \in Sessions |-> IF s = "s1" THEN Budget(msgs, frames, socks)
                                   ELSE NoBudget]

InitBudget(b) ==
    /\ budget = b
    /\ phase = [s \in Sessions |-> "idle"]
    /\ clientWs = [s \in Sessions |-> "NONE"]
    /\ sessions = {}
    /\ session = [s \in Sessions |-> NoSession]
    /\ sockets = [s \in Sessions |-> <<>>]
    /\ clientOut = [s \in Sessions |-> <<>>]
    /\ upstreamOut = [s \in Sessions |-> <<>>]
    /\ upstreamIn = [s \in Sessions |-> <<>>]
    /\ runs = [s \in Sessions |-> <<>>]
    /\ interactions = <<>>
    /\ voiceSessions = <<>>
    /\ env \in [apiKey : ApiKeys, cloudinary : BOOLEAN]
    /\ crashed = FALSE

InitWith(msgs, frames, socks) == InitBudget(OneSession(msgs, frames, socks))

Init == InitWith(MaxClientMsgs, MaxUpstreamFrames, MaxSockets)

InitDeltas == InitWith(DeltaClientMsgs, DeltaUpstreamFrames, MaxSockets)

InitSetups == InitWith(SetupClientMsgs, SetupUpstreamFrames, SetupSockets)

\* two connections at a time
InitPair ==
    InitBudget([s \in Sessions |->
                  IF s = "s1"
                  THEN Budget(PairClientMsgs, PairUpstreamFrames, PairSockets)
                  ELSE Budget(PeerClientMsgs, 0, 0)])

\* ------------------------------------------------- connection callback
\* wss.on('connection'): validateAuthToken accepts, validateUserId awaited
Connection(s, uid) ==
    /\ ~crashed
    /\ phase[s] = "idle"
    /\ budget[s].conns > 0
    /\ budget' = [budget EXCEPT ![s].conns = @ - 1]
    /\ phase' = [phase EXCEPT ![s] = "validating"]
    /\ clientWs' = [clientWs EXCEPT ![s] = "OPEN"]
    /\ session' = [session EXCEPT ![s] = NewSession(uid)]
    /\ UNCHANGED <<sessions, sockets, clientOut, upstreamOut, upstreamIn, runs,
                   interactions, voiceSessions, env, crashed>>

\* mutant: the rejection does not return, the session is registered as well
ValidateUserIdDoneRegisters(s, found) ==
    /\ ~crashed
    /\ phase[s] = "validating"
    /\ (session[s].userId = NoUser) => found
    /\ IF found
       THEN /\ phase' = [phase EXCEPT ![s] = "accepted"]
            /\ sessions' = sessions \cup {s}
            /\ clientOut' = SendClient(s, << <<"session_id", s>> >>)
            /\ UNCHANGED clientWs
       ELSE /\ phase' = [phase EXCEPT ![s] = "rejected"]
            /\ clientOut' = SendClient(s,
                   << <<"error", "Invalid user. Please restart the app.">>,
                      <<"close", InvalidUserCode>>, <<"session_id", s>> >>)
            /\ clientWs' = [clientWs EXCEPT ![s] = "CLOSED"]
            /\ sessions' = sessions \cup {s}
    /\ UNCHANGED <<session, sockets, upstreamOut, upstreamIn, runs,
                   interactions, voiceSessions, env, budget, crashed>>

\* continuation after `await validateUserId(userId)`
ValidateUserIdDone(s, found) ==
    /\ ~crashed
    /\ phase[s] = "validating"
    /\ (session[s].userId = NoUser) => found
    /\ IF found
       THEN /\ phase' = [phase EXCEPT ![s] = "accepted"]
            /\ sessions' = sessions \cup {s}
            /\ clientOut' = SendClient(s, << <<"session_id", s>> >>)
            /\ UNCHANGED clientWs
       ELSE /\ phase' = [phase EXCEPT ![s] = "rejected"]
            /\ clientOut' = SendClient(s,
                   << <<"error", "Invalid user. Please restart the app.">>,
                      <<"close", InvalidUserCode>> >>)
            /\ clientWs' = [clientWs EXCEPT ![s] = "CLOSED"]
            /\ UNCHANGED sessions
    /\ UNCHANGED <<session, sockets, upstreamOut, upstreamIn, runs,
                   interactions, voiceSessions, env, budget, crashed>>

\* ------------------------------------------------------------ endSession
ReadyState(sock) ==
    IF sock.state = "ERRORED" THEN "CLOSING" ELSE sock.state

\* mutant: the content guard of line 389 is missing
HasContentAlways(sess) == TRUE

HasContent(sess) ==
    sess.userTranscription # <<>> \/ sess.modelTranscription # <<>>

\* `session.userId || undefined`
Undefined == "undefined"
UserIdOrUndefined(sess) == IF sess.userId = NoUser THEN Undefined ELSE sess.userId

InteractionArgs(s) ==
    [ type |-> "voice",
      sourceLanguage |-> session[s].sourceLanguage,
      targetLanguage |-> session[s].targetLanguage,
      geminiInteractionId |-> s,
      userId |-> UserIdOrUndefined(session[s]) ]

\* mutant: transcription and translation are exchanged
VoiceSessionArgsSwapped(s, iid) ==
    [ interactionId |-> iid,
      transcription |-> session[s].modelTranscription,
      translation |-> session[s].userTranscription,
      summary |-> <<>> ]

VoiceSessionArgs(s, iid) ==
    [ interactionId |-> iid,
      transcription |-> session[s].userTranscription,
      translation |-> session[s].modelTranscription,
      summary |-> <<>> ]

NewRun(trigger) ==
    [ trigger |-> trigger,
      pc |-> "start",
      interactionId |-> NoId,
      userAudioUrl |-> NoUrl,
      translationAudioUrl |-> NoUrl,
      calls |-> <<>> ]

\* the segment of endSession that follows the last await, and the statement
\* after `await endSession(session)` in the 'close' callback
Return(s, r, run) ==
    /\ runs' = [runs EXCEPT ![s] =
                  IF r > Len(@) THEN Append(@, [run EXCEPT !.pc = "done"])
                  ELSE [@ EXCEPT ![r] = [run EXCEPT !.pc = "done"]]]
    /\ sessions' = IF run.trigger = "close" THEN sessions \ {s} ELSE sessions

\* lines 477-498: session_saved is sent only on an OPEN client socket
Notify(s, r, run) ==
    /\ clientOut' = SendClient(s, << <<"session_saved", run.interactionId,
                                      run.userAudioUrl,
                                      run.translationAudioUrl>> >>)
    /\ Return(s, r, run)

\* mutant: the error leaves endSession, so the 'close' callback never
\* reaches sessions.delete
CaughtRethrown(s, r, run) ==
    /\ UNCHANGED <<clientOut, sessions>>
    /\ runs' = [runs EXCEPT ![s][r] = [run EXCEPT !.pc = "done"]]

\* the catch block of endSession (lines 500-502)
Caught(s, r, run) ==
    /\ UNCHANGED clientOut
    /\ Return(s, r, run)

\* lines 388-389: nothing to persist
Skip(s, r, run) ==
    /\ UNCHANGED clientOut
    /\ Return(s, r, run)

\* suspend the run at an await
Await(s, r, run, pc, call) ==
    /\ runs' = [runs EXCEPT ![s] =
                  LET nr == [run EXCEPT !.pc = pc, !.calls = Append(@, call)]
                  IN IF r > Len(@) THEN Append(@, nr) ELSE [@ EXCEPT ![r] = nr]]
    /\ UNCHANGED <<clientOut, sessions>>

\* lines 468-474
UpdateStage(s, r, run) ==
    IF run.userAudioUrl # NoUrl \/ run.translationAudioUrl # NoUrl
    THEN Await(s, r, run, "update",
               <<"updateVoiceSessionAudioUrls", run.interactionId,
                 run.userAudioUrl, run.translationAudioUrl>>)
    ELSE Notify(s, r, run)

\* lines 443-466
AiUploadStage(s, r, run) ==
    IF Len(session[s].aiAudioChunks) > 0
    THEN Await(s, r, run, "aiUpload",
               <<"uploadBuffer", run.interactionId, "ai",
                 Concat(session[s].aiAudioChunks)>>)
    ELSE UpdateStage(s, r, run)

\* lines 417-441
UserUploadStage(s, r, run) ==
    IF ~env.cloudinary
    THEN Notify(s, r, run)
    ELSE IF Len(session[s].userAudioChunks) > 0
         THEN Await(s, r, run, "userUpload",
                    <<"uploadBuffer", run.interactionId, "user",
                      Concat(session[s].userAudioChunks)>>)
         ELSE AiUploadStage(s, r, run)

\* lines 382-402: endSession up to `await saveInteraction(...)`
EndSessionStart(s, trigger) ==
    LET g == session[s].geminiWs
        r == Len(runs[s]) + 1
    IN /\ sockets' =
             IF g # 0 /\ ReadyState(sockets[s][g]) = "OPEN"
             THEN [sockets EXCEPT ![s][g].state = "CLOSING"]
             ELSE sockets
       /\ IF HasContent(session[s])
          THEN Await(s, r, NewRun(trigger), "saveInteraction",
                     <<"saveInteraction", InteractionArgs(s)>>)
          ELSE Skip(s, r, NewRun(trigger))

RunAt(s, r, pc) ==
    /\ ~crashed
    /\ r \in 1..Len(runs[s])
    /\ runs[s][r].pc = pc

LastCall(run) == run.calls[Len(run.calls)]

\* saveInteraction resolves with the new row's id, or rejects
SaveInteractionDone(s, r, ok) ==
    /\ RunAt(s, r, "saveInteraction")
    /\ LET run == runs[s][r]
           iid == Len(interactions) + 1
       IN IF ok
          THEN /\ interactions' = Append(interactions,
                     [id |-> iid, args |-> LastCall(run)[2]])
               /\ Await(s, r, [run EXCEPT !.interactionId = iid],
                        "saveVoiceSession",
                        <<"saveVoiceSession", VoiceSessionArgs(s, iid)>>)
          ELSE /\ UNCHANGED interactions
               /\ Caught(s, r, run)
    /\ UNCHANGED <<phase, clientWs, session, sockets, upstreamOut, upstreamIn,
                   voiceSessions, env, budget, crashed>>

SaveVoiceSessionDone(s, r, ok) ==
    /\ RunAt(s, r, "saveVoiceSession")
    /\ LET run == runs[s][r]
           a == LastCall(run)[2]
       IN IF ok
          THEN /\ voiceSessions' = Append(voiceSessions,
                     [ interactionId |-> a.interactionId,
                       transcription |-> a.transcription,
                       translation |-> a.translation,
                       userAudioUrl |-> NoUrl,
                       translationAudioUrl |-> NoUrl ])
               /\ UserUploadStage(s, r, run)
          ELSE /\ UNCHANGED voiceSessions
               /\ Caught(s, r, run)
    /\ UNCHANGED <<phase, clientWs, session, sockets, upstreamOut, upstreamIn,
                   interactions, env, budget, crashed>>

\* secure_url of the uploaded asset
SecureUrl(iid, source) == <<"https", iid, source>>

\* mutant: a failed user upload ends the run in the outer catch block
UserUploadDoneBlocking(s, r, ok) ==
    /\ RunAt(s, r, "userUpload")
    /\ LET run == runs[s][r]
       IN IF ok
          THEN AiUploadStage(s, r, [run EXCEPT !.userAudioUrl =
                                       SecureUrl(run.interactionId, "user")])
          ELSE Caught(s, r, run)
    /\ UNCHANGED <<phase, clientWs, session, sockets, upstreamOut, upstreamIn,
                   interactions, voiceSessions, env, budget, crashed>>

UserUploadDone(s, r, ok) ==
    /\ RunAt(s, r, "userUpload")
    /\ LET run == runs[s][r]
       IN AiUploadStage(s, r,
              IF ok THEN [run EXCEPT !.userAudioUrl =
                                SecureUrl(run.interactionId, "user")]
              ELSE run)
    /\ UNCHANGED <<phase, clientWs, session, sockets, upstreamOut, upstreamIn,
                   interactions, voiceSessions, env, budget, crashed>>

AiUploadDone(s, r, ok) ==
    /\ RunAt(s, r, "aiUpload")
    /\ LET run == runs[s][r]
       IN UpdateStage(s, r,
              IF ok THEN [run EXCEPT !.translationAudioUrl =
                                SecureUrl(run.interactionId, "ai")]
              ELSE run)
    /\ UNCHANGED <<phase, clientWs, session, sockets, upstreamOut, upstreamIn,
                   interactions, voiceSessions, env, budget, crashed>>

\* dbService.updateVoiceSessionAudioUrls: only defined URLs are written
UpdateRow(row, iid, u, a) ==
    IF row.interactionId # iid THEN row
    ELSE [row EXCEPT !.userAudioUrl = IF u # NoUrl THEN u ELSE @,
                     !.translationAudioUrl = IF a # NoUrl THEN a ELSE @]

UpdateAudioUrlsDone(s, r, ok) ==
    /\ RunAt(s, r, "update")
    /\ LET run == runs[s][r]
           c == LastCall(run)
       IN IF ok
          THEN /\ voiceSessions' =
                     [i \in 1..Len(voiceSessions) |->
                         UpdateRow(voiceSessions[i], c[2], c[3], c[4])]
               /\ Notify(s, r, run)
          ELSE /\ UNCHANGED voiceSessions
               /\ Caught(s, r, run)
    /\ UNCHANGED <<phase, clientWs, session, sockets, upstreamOut, upstreamIn,
                   interactions, env, budget, crashed>>

\* ------------------------------------------------------- client frames
ClientCanSend(s) ==
    /\ ~crashed
    /\ phase[s] = "accepted"
    /\ clientWs[s] = "OPEN"
    /\ budget[s].msgs > 0

\* `opened`: the socket has emitted 'open'
NewSocket == [state |-> "CONNECTING", opened |-> FALSE]

\* {type:'setup'}: setupGeminiConnection (lines 211-295), which has no await
ClientSetup(s, src, tgt) ==
    /\ ClientCanSend(s)
    /\ env.apiKey = "valid" => budget[s].socks > 0
    /\ budget' = [budget EXCEPT ![s].msgs = @ - 1,
                                ![s].socks = IF env.apiKey = "valid"
                                             THEN @ - 1 ELSE @]
    /\ LET langs == [session[s] EXCEPT
                        !.sourceLanguage = OrDefault(src, "en"),
                        !.targetLanguage = OrDefault(tgt, "hi")]
       IN IF env.apiKey = "unset"
          THEN /\ session' = [session EXCEPT ![s] = langs]
               /\ clientOut' = SendClient(s,
                      << <<"error", "Gemini API key not configured">> >>)
               /\ UNCHANGED sockets
          ELSE IF env.apiKey = "invalid"
          THEN /\ session' = [session EXCEPT ![s] = langs]
               /\ clientOut' = SendClient(s,
                      << <<"error", "Failed to connect to translation service">> >>)
               /\ UNCHANGED sockets
          ELSE /\ sockets' = [sockets EXCEPT ![s] = Append(@, NewSocket)]
               /\ session' = [session EXCEPT ![s] =
                                 [langs EXCEPT !.geminiWs = Len(sockets[s]) + 1]]
               /\ UNCHANGED clientOut
    /\ UNCHANGED <<phase, clientWs, sessions, upstreamOut, upstreamIn, runs,
                   interactions, voiceSessions, env, crashed>>

\* mutant: the readyState test of line 358 is missing
GeminiNotReadyNullOnly(s) == session[s].geminiWs = 0

\* line 358
GeminiNotReady(s) ==
    \/ session[s].geminiWs = 0
    \/ ReadyState(sockets[s][session[s].geminiWs]) # "OPEN"

\* mutant: the chunk is buffered before the readyState test
ClientAudioBuffersFirst(s, d) ==
    /\ ClientCanSend(s)
    /\ budget' = [budget EXCEPT ![s].msgs = @ - 1]
    /\ session' = [session EXCEPT ![s].userAudioChunks = Append(@, B64Decode(d))]
    /\ IF GeminiNotReady(s)
       THEN /\ clientOut' = SendClient(s,
                   << <<"error", "Gemini connection not ready">> >>)
            /\ UNCHANGED upstreamOut
       ELSE /\ upstreamOut' = [upstreamOut EXCEPT ![s] =
                   Append(@, <<session[s].geminiWs, <<"realtimeInput", d>> >>)]
            /\ UNCHANGED clientOut
    /\ UNCHANGED <<phase, clientWs, sessions, sockets, upstreamIn, runs,
                   interactions, voiceSessions, env, crashed>>

\* mutant: the chunk replaces the buffer instead of being appended
ClientAudioOverwrites(s, d) ==
    /\ ClientCanSend(s)
    /\ budget' = [budget EXCEPT ![s].msgs = @ - 1]
    /\ IF GeminiNotReady(s)
       THEN /\ clientOut' = SendClient(s,
                   << <<"error", "Gemini connection not ready">> >>)
            /\ UNCHANGED <<session, upstreamOut>>
       ELSE /\ session' = [session EXCEPT ![s].userAudioChunks =
                              <<B64Decode(d)>>]
            /\ upstreamOut' = [upstreamOut EXCEPT ![s] =
                   Append(@, <<session[s].geminiWs, <<"realtimeInput", d>> >>)]
            /\ UNCHANGED clientOut
    /\ UNCHANGED <<phase, clientWs, sessions, sockets, upstreamIn, runs,
                   interactions, voiceSessions, env, crashed>>

\* {type:'audio'}: forwardAudioToGemini (lines 357-380)
ClientAudio(s, d) ==
    /\ ClientCanSend(s)
    /\ budget' = [budget EXCEPT ![s].msgs = @ - 1]
    /\ IF GeminiNotReady(s)
       THEN /\ clientOut' = SendClient(s,
                   << <<"error", "Gemini connection not ready">> >>)
            /\ UNCHANGED <<session, upstreamOut>>
       ELSE /\ session' = [session EXCEPT ![s].userAudioChunks =
                              Append(@, B64Decode(d))]
            /\ upstreamOut' = [upstreamOut EXCEPT ![s] =
                   Append(@, <<session[s].geminiWs, <<"realtimeInput", d>> >>)]
            /\ UNCHANGED clientOut
    /\ UNCHANGED <<phase, clientWs, sessions, sockets, upstreamIn, runs,
                   interactions, voiceSessions, env, crashed>>

\* {type:'end'}: endSession up to its first await
ClientEnd(s) ==
    /\ ClientCanSend(s)
    /\ Cardinality({r \in 1..Len(runs[s]) : runs[s][r].trigger = "end"}) < MaxEnds
    /\ budget' = [budget EXCEPT ![s].msgs = @ - 1]
    /\ EndSessionStart(s, "end")
    /\ UNCHANGED <<phase, clientWs, session, upstreamOut, upstreamIn,
                   interactions, voiceSessions, env, crashed>>

\* mutant: the default case falls through to `end`
ClientUnknownAsEnd(s) ==
    /\ ClientCanSend(s)
    /\ budget' = [budget EXCEPT ![s].msgs = @ - 1]
    /\ EndSessionStart(s, "end")
    /\ UNCHANGED <<phase, clientWs, session, upstreamOut, upstreamIn,
                   interactions, voiceSessions, env, crashed>>

\* a frame whose type is none of setup, audio, end (lines 206-207)
ClientUnknown(s) ==
    /\ ClientCanSend(s)
    /\ budget' = [budget EXCEPT ![s].msgs = @ - 1]
    /\ UNCHANGED <<phase, clientWs, sessions, session, sockets, clientOut,
                   upstreamOut, upstreamIn, runs, interactions, voiceSessions,
                   env, crashed>>

\* mutant: the try/catch around JSON.parse is missing
ClientMalformedUncaught(s) ==
    /\ ClientCanSend(s)
    /\ budget' = [budget EXCEPT ![s].msgs = @ - 1]
    /\ crashed' = TRUE
    /\ UNCHANGED <<phase, clientWs, sessions, session, sockets, clientOut,
                   upstreamOut, upstreamIn, runs, interactions, voiceSessions,
                   env>>

\* a frame JSON.parse rejects (lines 177-180)
ClientMalformed(s) ==
    /\ ClientCanSend(s)
    /\ budget' = [budget EXCEPT ![s].msgs = @ - 1]
    /\ clientOut' = SendClient(s, << <<"error", "Invalid message format">> >>)
    /\ UNCHANGED <<phase, clientWs, sessions, session, sockets, upstreamOut,
                   upstreamIn, runs, interactions, voiceSessions, env, crashed>>

\* the client socket closes; the 'close' callback (lines 183-187) exists only
\* once the connection callback has registered it
ClientClose(s) ==
    /\ ~crashed
    /\ clientWs[s] = "OPEN"
    /\ phase[s] \in {"validating", "accepted"}
    /\ clientWs' = [clientWs EXCEPT ![s] = "CLOSED"]
    /\ IF phase[s] = "accepted"
       THEN EndSessionStart(s, "close")
       ELSE UNCHANGED <<sockets, runs, clientOut, sessions>>
    /\ UNCHANGED <<phase, session, upstreamOut, upstreamIn, interactions,
                   voiceSessions, env, budget, crashed>>

\* ------------------------------------------------------ upstream events
SocketIn(s, k, states) ==
    /\ ~crashed
    /\ k \in 1..Len(sockets[s])
    /\ sockets[s][k].state \in states

\* geminiWs.on('open') (lines 233-269): the setup frame goes to
\* session.geminiWs, whichever socket that is when the callback runs
GeminiOpen(s, k) ==
    /\ SocketIn(s, k, {"CONNECTING"})
    /\ LET g == session[s].geminiWs
           opened == [sockets EXCEPT ![s][k] = [state |-> "OPEN", opened |-> TRUE]]
           st == ReadyState(opened[s][g])
       IN /\ sockets' = opened
          /\ crashed' = (st = "CONNECTING")
          /\ upstreamOut' =
                IF st = "OPEN"
                THEN [upstreamOut EXCEPT ![s] = Append(@,
                        <<g, <<"setup", session[s].sourceLanguage,
                                        session[s].targetLanguage>> >>)]
                ELSE upstreamOut
    /\ UNCHANGED <<phase, clientWs, sessions, session, clientOut, upstreamIn,
                   runs, interactions, voiceSessions, env, budget>>

\* upstream frames: unparseable, setupComplete, or a parsed object whose
\* serverContent may be missing
Content(inT, outT, parts, tc) ==
    [ kind |-> "serverContent", inputText |-> inT, outputText |-> outT,
      parts |-> parts, turnComplete |-> tc ]

UpstreamFrames ==
    { [kind |-> "bad"], [kind |-> "setupComplete"], [kind |-> "other"],
      Content(<<>>, <<>>, <<>>, FALSE),
      Content(<<"a">>, <<>>, <<>>, FALSE),
      Content(<<"b">>, <<>>, <<>>, FALSE),
      Content(<<>>, <<"c">>, <<>>, FALSE),
      Content(<<>>, <<>>, <<"Qg==">>, FALSE),
      Content(<<>>, <<>>, <<"Qg==", "Qw==">>, FALSE),
      Content(<<>>, <<>>, <<>>, TRUE),
      Content(<<"a">>, <<"c">>, <<"Qg==">>, TRUE) }

\* mutant: a turn boundary starts the transcripts afresh
GeminiSessionResetOnTurn(sess, f) ==
    IF f.kind # "serverContent" THEN sess
    ELSE LET s1 == IF f.inputText # <<>>
                   THEN [sess EXCEPT !.userTranscription = @ \o f.inputText]
                   ELSE sess
             s2 == IF f.outputText # <<>>
                   THEN [s1 EXCEPT !.modelTranscription = @ \o f.outputText]
                   ELSE s1
             s3 == IF f.parts # <<>>
                   THEN [s2 EXCEPT !.aiAudioChunks = Append(@, B64Decode(f.parts[1]))]
                   ELSE s2
         IN IF f.turnComplete
            THEN [s3 EXCEPT !.userTranscription = <<>>, !.modelTranscription = <<>>]
            ELSE s3

\* mutant: the input delta is put in front of the buffer
GeminiSessionPrepend(sess, f) ==
    IF f.kind # "serverContent" THEN sess
    ELSE LET s1 == IF f.inputText # <<>>
                   THEN [sess EXCEPT !.userTranscription = f.inputText \o @]
                   ELSE sess
             s2 == IF f.outputText # <<>>
                   THEN [s1 EXCEPT !.modelTranscription = @ \o f.outputText]
                   ELSE s1
         IN IF f.parts # <<>>
            THEN [s2 EXCEPT !.aiAudioChunks = Append(@, B64Decode(f.parts[1]))]
            ELSE s2

\* handleGeminiMessage (lines 297-355): the session after the frame
GeminiSession(sess, f) ==
    IF f.kind # "serverContent" THEN sess
    ELSE LET s1 == IF f.inputText # <<>>
                   THEN [sess EXCEPT !.userTranscription = @ \o f.inputText]
                   ELSE sess
             s2 == IF f.outputText # <<>>
                   THEN [s1 EXCEPT !.modelTranscription = @ \o f.outputText]
                   ELSE s1
         IN IF f.parts # <<>>
            THEN [s2 EXCEPT !.aiAudioChunks = Append(@, B64Decode(f.parts[1]))]
            ELSE s2

\* mutant: `accumulated` is read before the delta is appended
GeminiFramesStale(sess, f) ==
    IF f.kind = "setupComplete" THEN << <<"ready">> >>
    ELSE IF f.kind # "serverContent" THEN <<>>
    ELSE LET after == GeminiSession(sess, f)
         IN (IF f.inputText # <<>>
             THEN << <<"user_transcription", f.inputText,
                       sess.userTranscription>> >>
             ELSE <<>>)
            \o (IF f.outputText # <<>>
                THEN << <<"model_transcription", f.outputText,
                          sess.modelTranscription>> >>
                ELSE <<>>)
            \o (IF f.parts # <<>> THEN << <<"audio", f.parts[1]>> >> ELSE <<>>)
            \o (IF f.turnComplete
                THEN << <<"turn_complete", after.userTranscription,
                          after.modelTranscription>> >>
                ELSE <<>>)

\* handleGeminiMessage: the frames it sends to the client, in order
GeminiFrames(sess, f) ==
    IF f.kind = "setupComplete" THEN << <<"ready">> >>
    ELSE IF f.kind # "serverContent" THEN <<>>
    ELSE LET after == GeminiSession(sess, f)
         IN (IF f.inputText # <<>>
             THEN << <<"user_transcription", f.inputText,
                       sess.userTranscription \o f.inputText>> >>
             ELSE <<>>)
            \o (IF f.outputText # <<>>
                THEN << <<"model_transcription", f.outputText,
                          sess.modelTranscription \o f.outputText>> >>
                ELSE <<>>)
            \o (IF f.parts # <<>> THEN << <<"audio", f.parts[1]>> >> ELSE <<>>)
            \o (IF f.turnComplete
                THEN << <<"turn_complete", after.userTranscription,
                          after.modelTranscription>> >>
                ELSE <<>>)

\* mutant: the try/catch of handleGeminiMessage is missing
GeminiMessageUncaught(s, k, f) ==
    /\ SocketIn(s, k, {"OPEN", "CLOSING"})
    /\ budget[s].frames > 0
    /\ budget' = [budget EXCEPT ![s].frames = @ - 1]
    /\ upstreamIn' = [upstreamIn EXCEPT ![s] = Append(@, <<k, f>>)]
    /\ session' = [session EXCEPT ![s] = GeminiSession(@, f)]
    /\ clientOut' = SendClient(s, GeminiFrames(session[s], f))
    /\ crashed' = (f.kind = "bad")
    /\ UNCHANGED <<phase, clientWs, sessions, sockets, upstreamOut, runs,
                   interactions, voiceSessions, env>>

\* geminiWs.on('message') (lines 271-273)
GeminiMessage(s, k, f) ==
    /\ SocketIn(s, k, {"OPEN", "CLOSING"})
    /\ budget[s].frames > 0
    /\ budget' = [budget EXCEPT ![s].frames = @ - 1]
    /\ upstreamIn' = [upstreamIn EXCEPT ![s] = Append(@, <<k, f>>)]
    /\ session' = [session EXCEPT ![s] = GeminiSession(@, f)]
    /\ clientOut' = SendClient(s, GeminiFrames(session[s], f))
    /\ UNCHANGED <<phase, clientWs, sessions, sockets, upstreamOut, runs,
                   interactions, voiceSessions, env, crashed>>

\* mutant: the 'error' callback only logs
GeminiErrorSilent(s, k) ==
    /\ SocketIn(s, k, {"CONNECTING", "OPEN", "CLOSING"})
    /\ sockets' = [sockets EXCEPT ![s][k].state = "ERRORED"]
    /\ UNCHANGED <<phase, clientWs, sessions, session, clientOut, upstreamOut,
                   upstreamIn, runs, interactions, voiceSessions, env, budget,
                   crashed>>

\* geminiWs.on('error') (lines 280-286); ws then closes the socket
GeminiError(s, k) ==
    /\ SocketIn(s, k, {"CONNECTING", "OPEN", "CLOSING"})
    /\ sockets' = [sockets EXCEPT ![s][k].state = "ERRORED"]
    /\ clientOut' = SendClient(s, << <<"error", "Gemini connection error">> >>)
    /\ UNCHANGED <<phase, clientWs, sessions, session, upstreamOut, upstreamIn,
                   runs, interactions, voiceSessions, env, budget, crashed>>

\* geminiWs.on('close') (lines 275-278)
GeminiClose(s, k) ==
    /\ SocketIn(s, k, {"OPEN", "CLOSING", "ERRORED"})
    /\ sockets' = [sockets EXCEPT ![s][k].state = "CLOSED"]
    /\ clientOut' = SendClient(s, << <<"gemini_disconnected">> >>)
    /\ UNCHANGED <<phase, clientWs, sessions, session, upstreamOut, upstreamIn,
                   runs, interactions, voiceSessions, env, budget, crashed>>

\* ------------------------------------------------------- specification
Next ==
    \/ \E s \in Sessions, uid \in UserIds : Connection(s, uid)
    \/ \E s \in Sessions, found \in BOOLEAN : ValidateUserIdDone(s, found)
    \/ \E s \in Sessions, l \in LangPairs : ClientSetup(s, l[1], l[2])
    \/ \E s \in Sessions, d \in AudioData : ClientAudio(s, d)
    \/ \E s \in Sessions : ClientEnd(s)
    \/ \E s \in Sessions : ClientUnknown(s)
    \/ \E s \in Sessions : ClientMalformed(s)
    \/ \E s \in Sessions : ClientClose(s)
    \/ \E s \in Sessions : \E k \in 1..Len(sockets[s]) : GeminiOpen(s, k)
    \/ \E s \in Sessions : \E k \in 1..Len(sockets[s]), f \in UpstreamFrames :
          GeminiMessage(s, k, f)
    \/ \E s \in Sessions : \E k \in 1..Len(sockets[s]) : GeminiError(s, k)
    \/ \E s \in Sessions : \E k \in 1..Len(sockets[s]) : GeminiClose(s, k)
    \/ \E s \in Sessions, r \in 1..(MaxEnds + 1), ok \in BOOLEAN :
          SaveInteractionDone(s, r, ok)
    \/ \E s \in Sessions, r \in 1..(MaxEnds + 1), ok \in BOOLEAN :
          SaveVoiceSessionDone(s, r, ok)
    \/ \E s \in Sessions, r \in 1..(MaxEnds + 1), ok \in BOOLEAN :
          UserUploadDone(s, r, ok)
    \/ \E s \in Sessions, r \in 1..(MaxEnds + 1), ok \in BOOLEAN :
          AiUploadDone(s, r, ok)
    \/ \E s \in Sessions, r \in 1..(MaxEnds + 1), ok \in BOOLEAN :
          UpdateAudioUrlsDone(s, r, ok)

Spec == Init /\ [][Next]_vars

SpecDeltas == InitDeltas /\ [][Next]_vars

SpecSetups == InitSetups /\ [][Next]_vars

SpecPair == InitPair /\ [][Next]_vars

\* What the runtime is bound to do sooner or later: an awaited storage or
\* upload call settles, validateUserId settles, a connection attempt ends in
\* 'open' or 'error', and a socket that is closing or has errored emits
\* 'close'.  Client frames, upstream frames and a close or error of an open
\* upstream socket are up to the peers and are not fair.
AwaitSettles ==
    \E s \in Sessions, r \in 1..(MaxEnds + 1), ok \in BOOLEAN :
        \/ SaveInteractionDone(s, r, ok)
        \/ SaveVoiceSessionDone(s, r, ok)
        \/ UserUploadDone(s, r, ok)
        \/ AiUploadDone(s, r, ok)
        \/ UpdateAudioUrlsDone(s, r, ok)
ValidationSettles ==
    \E s \in Sessions, found \in BOOLEAN : ValidateUserIdDone(s, found)
ConnectResolves ==
    \E s \in Sessions : \E k \in 1..Len(sockets[s]) :
        /\ sockets[s][k].state = "CONNECTING"
        /\ GeminiOpen(s, k) \/ GeminiError(s, k)
CloseCompletes ==
    \E s \in Sessions : \E k \in 1..Len(sockets[s]) :
        /\ sockets[s][k].state \in {"CLOSING", "ERRORED"}
        /\ GeminiClose(s, k)

Fairness ==
    /\ WF_vars(AwaitSettles)
    /\ WF_vars(ValidationSettles)
    /\ WF_vars(ConnectResolves)
    /\ WF_vars(CloseCompletes)

FairSpec == Init /\ [][Next]_vars /\ Fairness

\* =================================================================
\* Properties
\* =================================================================
RunsOf(s) == 1..Len(runs[s])
FramesTo(s, type) == {i \in 1..Len(clientOut[s]) : clientOut[s][i][1] = type}
RowsOf(s) == {i \in 1..Len(interactions) :
                 interactions[i].args.geminiInteractionId = s}
CallsOf(run, name) == {i \in 1..Len(run.calls) : run.calls[i][1] = name}

\* C1: for every session and every sequence of termination triggers, the
\* persistence step of endSession runs at most once, so at most one
\* interaction row is ever created for a session id.
C1_PersistAtMostOnce ==
    \A s \in Sessions :
        /\ Cardinality({r \in RunsOf(s) : runs[s][r].calls # <<>>}) <= 1
        /\ Cardinality(RowsOf(s)) <= 1

\* C2: once endSession has completed for a session, whether an `end` frame
\* or the client disconnect triggered it, the session id is no longer in the
\* sessions map.
C2_ClosedAfterEndSession ==
    \A s \in Sessions : \A r \in RunsOf(s) :
        runs[s][r].pc = "done" => s \notin sessions

\* the deltas of one kind carried by the upstream frames handled so far
RECURSIVE DeltasOf(_, _)
DeltasOf(log, field) ==
    IF log = <<>> THEN <<>>
    ELSE LET f == Head(log)[2]
         IN (IF f.kind = "serverContent" THEN <<f[field]>> ELSE <<>>)
            \o DeltasOf(Tail(log), field)

\* C3: for every sequence of upstream transcript deltas d1..dn of one kind
\* handled in that order, the corresponding buffer equals d1 ++ ... ++ dn;
\* deltas of one kind never change the other buffer.
C3_TranscriptIsConcatenation ==
    \A s \in Sessions :
        /\ session[s].userTranscription =
              Concat(DeltasOf(upstreamIn[s], "inputText"))
        /\ session[s].modelTranscription =
              Concat(DeltasOf(upstreamIn[s], "outputText"))

C3_Witness ==
    \E s \in Sessions :
        /\ DeltasOf(upstreamIn[s], "inputText") = << <<"a">>, <<"b">> >>
        /\ session[s].userTranscription = <<"a", "b">>
        /\ session[s].modelTranscription = <<>>

\* C4: if both transcripts are empty when endSession runs (in particular
\* for a session that disconnects without ever sending setup), nothing is
\* persisted, no upload is attempted and no session_saved frame is sent.
C4_EmptySessionNotPersisted ==
    \A s \in Sessions :
        (session[s].userTranscription = <<>> /\ session[s].modelTranscription = <<>>)
        => /\ \A r \in RunsOf(s) : runs[s][r].calls = <<>> /\ runs[s][r].pc = "done"
           /\ RowsOf(s) = {}
           /\ FramesTo(s, "session_saved") = {}

C4_Witness ==
    \E s \in Sessions :
        /\ sockets[s] = <<>>
        /\ budget[s].msgs = MaxClientMsgs
        /\ Len(runs[s]) = 1
        /\ runs[s][1].trigger = "close"
        /\ runs[s][1].pc = "done"
        /\ s \notin sessions
        /\ clientOut[s] = << <<"session_id", s>> >>

\* the upstream channel of the session is absent or not open
UpstreamAbsentOrNotOpen(s) ==
    \/ session[s].geminiWs = 0
    \/ sockets[s][session[s].geminiWs].state # "OPEN"

NotReadyFrame == <<"error", "Gemini connection not ready">>

\* C5: every client audio frame handled while the upstream channel is absent
\* or not open produces exactly one 'Gemini connection not ready' error
\* frame, is not appended to userAudioChunks and is not sent upstream.
C5_NotReadyNotice ==
    [][\A s \in Sessions, d \in AudioData :
          (ClientAudio(s, d) /\ UpstreamAbsentOrNotOpen(s))
          => /\ clientOut'[s] = Append(clientOut[s], NotReadyFrame)
             /\ session'[s] = session[s]
             /\ upstreamOut'[s] = upstreamOut[s]]_vars

C5_Witness ==
    \E s \in Sessions :
        /\ Len(sockets[s]) = 1
        /\ sockets[s][1].state = "CONNECTING"
        /\ \E i \in 1..Len(clientOut[s]) : clientOut[s][i] = NotReadyFrame
        /\ session[s].userAudioChunks = <<>>
        /\ upstreamOut[s] = <<>>

SavedFrame(run) ==
    <<"session_saved", run.interactionId, run.userAudioUrl,
      run.translationAudioUrl>>

\* C6: for a session that was set up, reached upstream ready and has a
\* non-empty transcript when the client sends `end`: the run calls
\* saveInteraction with type voice, the session's languages and the session
\* id; the row it creates carries those values; saveVoiceSession is called
\* with the accumulated transcripts and its row carries them; and when the
\* run finishes without a failure, session_saved carries the interaction id.
C6_EndPersistsSession ==
    [][\A s \in Sessions :
        /\ (ClientEnd(s) /\ (session[s].userTranscription # <<>>
                              \/ session[s].modelTranscription # <<>>))
           => /\ Len(runs'[s]) = Len(runs[s]) + 1
              /\ LET calls == runs'[s][Len(runs'[s])].calls
                 IN /\ Len(calls) = 1
                    /\ calls[1][1] = "saveInteraction"
                    /\ calls[1][2].type = "voice"
                    /\ calls[1][2].sourceLanguage = session[s].sourceLanguage
                    /\ calls[1][2].targetLanguage = session[s].targetLanguage
                    /\ calls[1][2].geminiInteractionId = s
        /\ \A r \in RunsOf(s) :
           /\ SaveInteractionDone(s, r, TRUE)
              => LET iid == runs'[s][r].interactionId
                 IN /\ iid \notin {interactions[i].id : i \in 1..Len(interactions)}
                    /\ interactions' = Append(interactions,
                          [id |-> iid, args |-> runs[s][r].calls[1][2]])
                    /\ LastCall(runs'[s][r]) =
                          <<"saveVoiceSession",
                            [ interactionId |-> iid,
                              transcription |-> session[s].userTranscription,
                              translation |-> session[s].modelTranscription,
                              summary |-> <<>> ]>>
           /\ SaveVoiceSessionDone(s, r, TRUE)
              => LET a == LastCall(runs[s][r])[2]
                 IN /\ a.interactionId = runs[s][r].interactionId
                    /\ voiceSessions' = Append(voiceSessions,
                          [ interactionId |-> a.interactionId,
                            transcription |-> a.transcription,
                            translation |-> a.translation,
                            userAudioUrl |-> NoUrl,
                            translationAudioUrl |-> NoUrl ])
           /\ ( /\ runs[s][r].pc \in {"saveVoiceSession", "userUpload",
                                      "aiUpload", "update"}
                /\ runs'[s][r].pc = "done"
                /\ runs[s][r].trigger = "end"
                /\ clientWs[s] = "OPEN"
                /\ ~SaveVoiceSessionDone(s, r, FALSE)
                /\ ~UpdateAudioUrlsDone(s, r, FALSE) )
              => /\ runs'[s][r].interactionId # NoId
                 /\ clientOut'[s] = Append(clientOut[s], SavedFrame(runs'[s][r]))
      ]_vars

C6_Witness ==
    \E s \in Sessions :
        /\ \E i \in FramesTo(s, "ready") : i < Len(clientOut[s])
        /\ Len(runs[s]) = 1
        /\ runs[s][1].trigger = "end"
        /\ runs[s][1].pc = "done"
        /\ Len(interactions) = 1
        /\ interactions[1].args = [ type |-> "voice", sourceLanguage |-> "fr",
                                    targetLanguage |-> "hi",
                                    geminiInteractionId |-> s, userId |-> "u1" ]
        /\ Len(voiceSessions) = 1
        /\ voiceSessions[1].interactionId = interactions[1].id
        /\ voiceSessions[1].transcription = <<"a">>
        /\ voiceSessions[1].translation = <<"c">>
        /\ clientOut[s][Len(clientOut[s])][1] = "session_saved"
        /\ clientOut[s][Len(clientOut[s])][2] = interactions[1].id

SocketFrames(log, k) == {i \in 1..Len(log) : log[i][1] = k}
SetupCompletes(s) ==
    {i \in 1..Len(upstreamIn[s]) : upstreamIn[s][i][2].kind = "setupComplete"}
NeverOpened(s) == \A k \in 1..Len(sockets[s]) : ~sockets[s][k].opened

C7_State ==
    \A s \in Sessions :
        /\ env.apiKey # "valid" => sockets[s] = <<>> /\ session[s].geminiWs = 0
        /\ \A k \in 1..Len(sockets[s]) :
              ~sockets[s][k].opened
              => /\ SocketFrames(upstreamIn[s], k) = {}
                 /\ SocketFrames(upstreamOut[s], k) = {}
        /\ Cardinality(FramesTo(s, "ready")) <= Cardinality(SetupCompletes(s))
        /\ NeverOpened(s)
           => /\ FramesTo(s, "ready") = {}
              /\ upstreamOut[s] = <<>>
              /\ session[s].userAudioChunks = <<>>

UrlIf(ok, iid, source) == IF ok THEN SecureUrl(iid, source) ELSE NoUrl

\* C8: with object storage configured and both audio buffers non-empty, the
\* AI upload is attempted whatever the outcome of the user upload;
\* updateVoiceSessionAudioUrls is called with exactly the URLs of the
\* uploads that succeeded, and not at all when both failed; and
\* session_saved carries exactly those URLs.
C8_IndependentUploads ==
    [][\A s \in Sessions : \A r \in RunsOf(s) : \A ok \in BOOLEAN :
        LET run == runs[s][r]
            iid == run.interactionId
        IN /\ ( /\ SaveVoiceSessionDone(s, r, TRUE)
                /\ env.cloudinary
                /\ session[s].userAudioChunks # <<>> )
              => /\ runs'[s][r].pc = "userUpload"
                 /\ LastCall(runs'[s][r]) =
                       <<"uploadBuffer", iid, "user",
                         Concat(session[s].userAudioChunks)>>
           /\ (UserUploadDone(s, r, ok) /\ session[s].aiAudioChunks # <<>>)
              => /\ runs'[s][r].pc = "aiUpload"
                 /\ runs'[s][r].userAudioUrl = UrlIf(ok, iid, "user")
                 /\ runs'[s][r].calls = Append(run.calls,
                       <<"uploadBuffer", iid, "ai",
                         Concat(session[s].aiAudioChunks)>>)
           /\ AiUploadDone(s, r, ok)
              => LET u == run.userAudioUrl
                     a == UrlIf(ok, iid, "ai")
                 IN /\ runs'[s][r].userAudioUrl = u
                    /\ runs'[s][r].translationAudioUrl = a
                    /\ IF u = NoUrl /\ a = NoUrl
                       THEN /\ runs'[s][r].calls = run.calls
                            /\ runs'[s][r].pc = "done"
                            /\ clientWs[s] = "OPEN"
                               => clientOut'[s] = Append(clientOut[s],
                                     <<"session_saved", iid, NoUrl, NoUrl>>)
                       ELSE /\ runs'[s][r].pc = "update"
                            /\ runs'[s][r].calls = Append(run.calls,
                                  <<"updateVoiceSessionAudioUrls", iid, u, a>>)
                            /\ clientOut'[s] = clientOut[s]
           /\ UpdateAudioUrlsDone(s, r, TRUE)
              => /\ runs'[s][r].calls = run.calls
                 /\ clientWs[s] = "OPEN"
                    => clientOut'[s] = Append(clientOut[s],
                          <<"session_saved", iid, run.userAudioUrl,
                            run.translationAudioUrl>>)
                 /\ \A i \in 1..Len(voiceSessions) :
                       voiceSessions[i].interactionId = iid
                       => /\ voiceSessions'[i].userAudioUrl =
                                IF run.userAudioUrl # NoUrl
                                THEN run.userAudioUrl
                                ELSE voiceSessions[i].userAudioUrl
                          /\ voiceSessions'[i].translationAudioUrl =
                                IF run.translationAudioUrl # NoUrl
                                THEN run.translationAudioUrl
                                ELSE voiceSessions[i].translationAudioUrl
      ]_vars

C8_Witness ==
    \E s \in Sessions :
        /\ Len(runs[s]) = 1
        /\ runs[s][1].pc = "done"
        /\ session[s].userAudioChunks # <<>>
        /\ session[s].aiAudioChunks # <<>>
        /\ LET run == runs[s][1]
               url == SecureUrl(run.interactionId, "user")
           IN /\ Cardinality(CallsOf(run, "uploadBuffer")) = 2
              /\ LastCall(run) = <<"updateVoiceSessionAudioUrls",
                                   run.interactionId, url, NoUrl>>
              /\ clientOut[s][Len(clientOut[s])] =
                    <<"session_saved", run.interactionId, url, NoUrl>>
              /\ \E i \in 1..Len(voiceSessions) :
                    /\ voiceSessions[i].interactionId = run.interactionId
                    /\ voiceSessions[i].userAudioUrl = url
                    /\ voiceSessions[i].translationAudioUrl = NoUrl

\* C9: a failure of saveInteraction, saveVoiceSession or
\* updateVoiceSessionAudioUrls inside endSession never prevents teardown:
\* the run still ends, nothing escapes it, and when the client disconnect
\* triggered it the session is removed from the sessions map.
C9_FailureStillTearsDown ==
    [][\A s \in Sessions : \A r \in RunsOf(s) :
          ( \/ SaveInteractionDone(s, r, FALSE)
            \/ SaveVoiceSessionDone(s, r, FALSE)
            \/ UpdateAudioUrlsDone(s, r, FALSE) )
          => /\ runs'[s][r].pc = "done"
             /\ ~crashed'
             /\ runs[s][r].trigger = "close" => s \notin sessions'
      ]_vars

C9_Witness ==
    \E s \in Sessions : \E r \in RunsOf(s) :
        /\ runs[s][r].trigger = "close"
        /\ runs[s][r].pc = "done"
        /\ runs[s][r].calls # <<>>
        /\ LastCall(runs[s][r])[1] = "saveVoiceSession"
        /\ \A i \in 1..Len(voiceSessions) :
              voiceSessions[i].interactionId # runs[s][r].interactionId
        /\ s \notin sessions

\* C10: when saveInteraction or saveVoiceSession fails in a run and the
\* client channel is still open, the client still receives an end-of-session
\* notification (one that carries no interaction id).
C10_NoticeAfterPersistenceFailure ==
    \A s \in Sessions : \A r \in RunsOf(s) :
        ( /\ runs[s][r].pc = "done"
          /\ runs[s][r].calls # <<>>
          /\ LastCall(runs[s][r])[1] \in {"saveInteraction", "saveVoiceSession"}
          /\ \A i \in 1..Len(voiceSessions) :
                voiceSessions[i].interactionId # runs[s][r].interactionId
          /\ clientWs[s] = "OPEN" )
        => \E i \in FramesTo(s, "session_saved") : clientOut[s][i][2] = NoId

\* lifecycle of a session, read off the program state: the upstream has
\* signalled ready, an endSession run is in flight, an endSession run is over
UpstreamReady(s) == SetupCompletes(s) # {}
Finalizing(s) == \E r \in RunsOf(s) : runs[s][r].pc # "done"
Terminated(s) == \E r \in RunsOf(s) : runs[s][r].pc = "done"

EndProcessed(s) == \E r \in RunsOf(s) : runs[s][r].trigger = "end"

\* C12: the lifecycle only moves forward: once the upstream has signalled
\* ready (Streaming) or an `end` frame has been handled, no step reconfigures
\* the languages or opens an upstream connection, and once an endSession run
\* is over no later run persists anything.
C12_LifecycleOnlyForward ==
    [][\A s \in Sessions :
          /\ (UpstreamReady(s) \/ EndProcessed(s))
             => /\ session'[s].sourceLanguage = session[s].sourceLanguage
                /\ session'[s].targetLanguage = session[s].targetLanguage
                /\ Len(sockets'[s]) = Len(sockets[s])
          /\ Terminated(s)
             => \A r \in 1..Len(runs'[s]) :
                   r \notin RunsOf(s) => runs'[s][r].pc = "done"
      ]_vars

\* upstream sockets of the session that are connecting or open
LiveSockets(s) ==
    {k \in 1..Len(sockets[s]) : sockets[s][k].state \in {"CONNECTING", "OPEN"}}
SetupFrames(s) ==
    {i \in 1..Len(upstreamOut[s]) : upstreamOut[s][i][2][1] = "setup"}

\* C13: a session never has more than one upstream socket connecting or
\* open at a time, and never sends more than one setup frame upstream,
\* whatever client messages (repeated `setup` included) it receives.
C13_OneUpstreamConnection ==
    \A s \in Sessions :
        /\ Cardinality(LiveSockets(s)) <= 1
        /\ Cardinality(SetupFrames(s)) <= 1

\* the endSession run started by an `end` frame is at one of its awaits
EndInFlight(s) ==
    \E r \in RunsOf(s) : runs[s][r].trigger = "end" /\ runs[s][r].pc # "done"

\* a client frame of the session is handled in this step
ClientMessageHandled(s) ==
    \/ \E l \in LangPairs : ClientSetup(s, l[1], l[2])
    \/ \E d \in AudioData : ClientAudio(s, d)
    \/ ClientEnd(s)
    \/ ClientUnknown(s)
    \/ ClientMalformed(s)

\* C14: client messages of a session are applied strictly in receipt order,
\* each one completely before the next: no client frame is handled while the
\* endSession run started by an earlier `end` frame is still in flight.
C14_MessagesSerialized ==
    [][\A s \in Sessions : EndInFlight(s) => ~ClientMessageHandled(s)]_vars

\* C15: once endSession has run for a session, every upstream socket of the
\* session is eventually closed: none stays connecting or open, whatever
\* state the socket was in when endSession ran.
C15_UpstreamEventuallyClosed ==
    \A s \in Sessions : (runs[s] # <<>>) ~> (LiveSockets(s) = {})

\* session_saved frames sent to the client that carry the interaction id
SavedFramesFor(s, iid) ==
    {i \in FramesTo(s, "session_saved") : clientOut[s][i][2] = iid}

\* C16: for every endSession run that is over and has created an interaction
\* row: if the client channel is open, the client has received exactly one
\* session_saved frame with that row's id, whatever the outcome of
\* saveVoiceSession, the uploads and updateVoiceSessionAudioUrls; if the
\* client disconnect started the run, no session_saved frame was sent.
C16_SavedFrameAfterInteraction ==
    \A s \in Sessions : \A r \in RunsOf(s) :
        LET run == runs[s][r]
        IN (run.pc = "done" /\ run.interactionId # NoId)
           => /\ clientWs[s] = "OPEN"
                 => Cardinality(SavedFramesFor(s, run.interactionId)) = 1
              /\ run.trigger = "close"
                 => SavedFramesFor(s, run.interactionId) = {}

\* C17: handling a client frame whose type is none of setup, audio, end
\* leaves the session's fields, its upstream sockets, its registry membership
\* and its finalizer runs unchanged and sends nothing to the client or
\* upstream.
C17_UnknownTypeIgnored ==
    [][\A s \in Sessions :
          ClientUnknown(s)
          => /\ session'[s] = session[s]
             /\ sockets'[s] = sockets[s]
             /\ (s \in sessions') = (s \in sessions)
             /\ runs'[s] = runs[s]
             /\ clientOut'[s] = clientOut[s]
             /\ upstreamOut'[s] = upstreamOut[s]
             /\ interactions' = interactions
             /\ ~crashed'
      ]_vars

C17_Witness ==
    \E s \in Sessions :
        /\ budget[s].msgs = MaxClientMsgs - 2
        /\ session[s].targetLanguage = "de"
        /\ Len(sockets[s]) = 1
        /\ sockets[s][1].state = "OPEN"
        /\ clientOut[s] = << <<"session_id", s>> >>
        /\ upstreamOut[s] = << <<1, <<"setup", "en", "de">> >> >>
        /\ runs[s] = <<>>
        /\ s \in sessions

InvalidFormatFrame == <<"error", "Invalid message format">>

\* C18: handling a client frame that is not parseable JSON sends exactly one
\* 'Invalid message format' error frame to the client, changes no session
\* field, keeps the session in the sessions map, and leaves the connection
\* able to handle later frames (accepted, open, nothing thrown).
C18_MalformedFrameRecoverable ==
    [][\A s \in Sessions :
          ClientMalformed(s)
          => /\ clientOut'[s] = Append(clientOut[s], InvalidFormatFrame)
             /\ session'[s] = session[s]
             /\ sockets'[s] = sockets[s]
             /\ runs'[s] = runs[s]
             /\ upstreamOut'[s] = upstreamOut[s]
             /\ s \in sessions'
             /\ phase'[s] = "accepted"
             /\ clientWs'[s] = "OPEN"
             /\ ~crashed'
      ]_vars

\* a malformed frame, then an audio frame that was handled and answered
C18_Witness ==
    \E s \in Sessions :
        /\ clientOut[s] = << <<"session_id", s>>, InvalidFormatFrame,
                             NotReadyFrame >>
        /\ session[s] = NewSession(session[s].userId)
        /\ s \in sessions

\* upstream frames that cannot be parsed or carry none of the recognised
\* fields
DroppedFrames ==
    { [kind |-> "bad"], [kind |-> "other"], Content(<<>>, <<>>, <<>>, FALSE) }

\* C19: handling an upstream frame that cannot be parsed, or that has none
\* of the recognised fields, changes no accumulator or other session field,
\* sends nothing to the client or upstream, throws nothing, and leaves the
\* upstream socket and the finalizer runs as they were.
C19_BadUpstreamFrameDropped ==
    [][\A s \in Sessions : \A k \in 1..Len(sockets[s]) : \A f \in DroppedFrames :
          GeminiMessage(s, k, f)
          => /\ session'[s] = session[s]
             /\ clientOut'[s] = clientOut[s]
             /\ upstreamOut'[s] = upstreamOut[s]
             /\ sockets'[s] = sockets[s]
             /\ runs'[s] = runs[s]
             /\ (s \in sessions') = (s \in sessions)
             /\ ~crashed'
      ]_vars

\* an unparseable frame, then a transcript delta that was handled
C19_Witness ==
    \E s \in Sessions :
        /\ upstreamIn[s] = << <<1, [kind |-> "bad"]>>,
                              <<1, Content(<<"a">>, <<>>, <<>>, FALSE)>> >>
        /\ session[s].userTranscription = <<"a">>
        /\ clientOut[s] = << <<"session_id", s>>,
                             <<"user_transcription", <<"a">>, <<"a">> >> >>

\* the audio chunks of the realtimeInput frames sent upstream so far, and
\* the audio chunks carried by the upstream frames handled so far
RECURSIVE ForwardedChunks(_)
ForwardedChunks(log) ==
    IF log = <<>> THEN <<>>
    ELSE LET m == Head(log)[2]
         IN (IF m[1] = "realtimeInput" THEN <<B64Decode(m[2])>> ELSE <<>>)
            \o ForwardedChunks(Tail(log))

RECURSIVE ReceivedChunks(_)
ReceivedChunks(log) ==
    IF log = <<>> THEN <<>>
    ELSE LET f == Head(log)[2]
         IN (IF f.kind = "serverContent" /\ f.parts # <<>>
             THEN <<B64Decode(f.parts[1])>> ELSE <<>>)
            \o ReceivedChunks(Tail(log))

\* C20: under every interleaving of client audio frames and upstream frames
\* of a session, each accumulator is what handling those frames one at a
\* time gives: userAudioChunks holds the forwarded chunks in order,
\* aiAudioChunks the received chunks in order, and each transcript the
\* concatenation of its deltas; no append of one handler is lost to or
\* mixed with the other's.
C20_HandlersAtomicOnAccumulators ==
    \A s \in Sessions :
        /\ session[s].userAudioChunks = ForwardedChunks(upstreamOut[s])
        /\ session[s].aiAudioChunks = ReceivedChunks(upstreamIn[s])
        /\ session[s].userTranscription =
              Concat(DeltasOf(upstreamIn[s], "inputText"))
        /\ session[s].modelTranscription =
              Concat(DeltasOf(upstreamIn[s], "outputText"))

C20_Witness ==
    \E s \in Sessions :
        /\ Len(session[s].userAudioChunks) = 2
        /\ Len(session[s].aiAudioChunks) = 1
        /\ session[s].userTranscription = <<"a">>
        /\ session[s].modelTranscription = <<"c">>
        /\ Len(upstreamOut[s]) = 3

\* an event of session a is handled in this step
EventOf(a) ==
    \/ \E uid \in UserIds : Connection(a, uid)
    \/ \E found \in BOOLEAN : ValidateUserIdDone(a, found)
    \/ ClientMessageHandled(a)
    \/ ClientClose(a)
    \/ \E k \in 1..Len(sockets[a]) :
          \/ GeminiOpen(a, k)
          \/ \E f \in UpstreamFrames : GeminiMessage(a, k, f)
          \/ GeminiError(a, k)
          \/ GeminiClose(a, k)
    \/ \E r \in RunsOf(a), ok \in BOOLEAN :
          \/ SaveInteractionDone(a, r, ok)
          \/ SaveVoiceSessionDone(a, r, ok)
          \/ UserUploadDone(a, r, ok)
          \/ AiUploadDone(a, r, ok)
          \/ UpdateAudioUrlsDone(a, r, ok)

\* everything the program holds for session b is the same after the step
Untouched(b) ==
    /\ phase'[b] = phase[b]
    /\ clientWs'[b] = clientWs[b]
    /\ session'[b] = session[b]
    /\ sockets'[b] = sockets[b]
    /\ runs'[b] = runs[b]
    /\ clientOut'[b] = clientOut[b]
    /\ upstreamOut'[b] = upstreamOut[b]
    /\ (b \in sessions') = (b \in sessions)

\* C21: sessions are isolated: an event of session a changes no field of any
\* other session b, sends nothing on b's client or upstream channel, does
\* not remove b from the sessions map, and does not bring down the process
\* that serves b.
C21_SessionsIsolated ==
    [][\A a \in Sessions, b \in Sessions :
          (a # b /\ EventOf(a))
          => /\ Untouched(b)
             /\ phase[b] = "accepted" => ~crashed'
      ]_vars

IsPrefix(a, b) == Len(a) <= Len(b) /\ SubSeq(b, 1, Len(a)) = a

\* C22: the four accumulators are append-only: in every step, the finalizer's
\* steps included, the old value of userTranscription, modelTranscription,
\* userAudioChunks and aiAudioChunks is a prefix of the new value.
C22_AccumulatorsAppendOnly ==
    [][\A s \in Sessions :
          phase[s] = "accepted"
          => /\ IsPrefix(session[s].userTranscription, session'[s].userTranscription)
             /\ IsPrefix(session[s].modelTranscription, session'[s].modelTranscription)
             /\ IsPrefix(session[s].userAudioChunks, session'[s].userAudioChunks)
             /\ IsPrefix(session[s].aiAudioChunks, session'[s].aiAudioChunks)
      ]_vars

\* two turns appended one after the other, then the session finalized
C22_Witness ==
    \E s \in Sessions :
        /\ session[s].userTranscription = <<"a", "a">>
        /\ session[s].modelTranscription = <<"c", "c">>
        /\ session[s].aiAudioChunks = << <<66>>, <<66>> >>
        /\ Terminated(s)

\* the realtimeInput frames the session has sent upstream, in order
IsRealtimeInput(m) == m[2][1] = "realtimeInput"
Forwarded(s) == SelectSeq(upstreamOut[s], IsRealtimeInput)

\* C23: no client audio frame is forwarded upstream or appended to
\* userAudioChunks before the upstream has sent setupComplete and the client
\* has been sent `ready`.
C23_NoAudioBeforeReady ==
    \A s \in Sessions :
        (Forwarded(s) # <<>> \/ session[s].userAudioChunks # <<>>)
        => UpstreamReady(s) /\ FramesTo(s, "ready") # {}

\* every inline audio payload of the upstream frames handled so far, over
\* all parts of each frame, decoded, in order
RECURSIVE DecodeAll(_)
DecodeAll(parts) ==
    IF parts = <<>> THEN <<>>
    ELSE <<B64Decode(Head(parts))>> \o DecodeAll(Tail(parts))

RECURSIVE AllReceivedChunks(_)
AllReceivedChunks(log) ==
    IF log = <<>> THEN <<>>
    ELSE LET f == Head(log)[2]
         IN (IF f.kind = "serverContent" THEN DecodeAll(f.parts) ELSE <<>>)
            \o AllReceivedChunks(Tail(log))

\* C24: every inline audio payload carried in the parts of an upstream
\* frame, not only the first part's, is decoded and appended to aiAudioChunks
\* in part order, and forwarded to the client as an `audio` frame.
C24_EveryPartForwarded ==
    \A s \in Sessions :
        /\ session[s].aiAudioChunks = AllReceivedChunks(upstreamIn[s])
        /\ clientWs[s] = "OPEN"
           => Cardinality(FramesTo(s, "audio")) = Len(session[s].aiAudioChunks)

\* C25: userAudioChunks holds, in order, exactly the decoded payloads of the
\* realtimeInput frames the session has sent upstream: an audio frame is
\* buffered if and only if it is forwarded.
C25_BufferedIffForwarded ==
    \A s \in Sessions :
        /\ Len(session[s].userAudioChunks) = Len(Forwarded(s))
        /\ \A i \in 1..Len(Forwarded(s)) :
              session[s].userAudioChunks[i] = B64Decode(Forwarded(s)[i][2][2])

\* two different payloads forwarded, one frame refused before them
C25_Witness ==
    \E s \in Sessions :
        /\ session[s].userAudioChunks = << <<66>>, <<65>> >>
        /\ Len(Forwarded(s)) = 2
        /\ NotReadyFrame \notin {clientOut[s][i] : i \in 1..Len(clientOut[s])}

\* C26: every user_transcription / model_transcription frame sent to the
\* client carries as `accumulated` the buffer's value right after its delta
\* was appended, and every turn_complete frame carries both buffers as they
\* are after the deltas of the same and all earlier upstream frames.
C26_AccumulatedIsBufferAfterAppend ==
    [][\A s \in Sessions :
          \A i \in (Len(clientOut[s]) + 1)..Len(clientOut'[s]) :
             LET fr == clientOut'[s][i]
             IN /\ fr[1] = "user_transcription"
                   => /\ fr[3] = session'[s].userTranscription
                      /\ fr[3] = session[s].userTranscription \o fr[2]
                /\ fr[1] = "model_transcription"
                   => /\ fr[3] = session'[s].modelTranscription
                      /\ fr[3] = session[s].modelTranscription \o fr[2]
                /\ fr[1] = "turn_complete"
                   => /\ fr[2] = session'[s].userTranscription
                      /\ fr[3] = session'[s].modelTranscription
                      /\ fr[2] = Concat(DeltasOf(upstreamIn'[s], "inputText"))
                      /\ fr[3] = Concat(DeltasOf(upstreamIn'[s], "outputText"))
      ]_vars

\* a delta, then a frame with both deltas and the turn boundary
C26_Witness ==
    \E s \in Sessions :
        /\ Len(clientOut[s]) = 6
        /\ clientOut[s][2] = <<"user_transcription", <<"b">>, <<"b">> >>
        /\ clientOut[s][3] = <<"user_transcription", <<"a">>, <<"b", "a">> >>
        /\ clientOut[s][4] = <<"model_transcription", <<"c">>, <<"c">> >>
        /\ clientOut[s][6] = <<"turn_complete", <<"b", "a">>, <<"c">> >>

\* C27: a session is created with the languages 'en' and 'hi'; a step that
\* handles a setup frame sets each language to the value the frame supplies,
\* or to the default when the frame omits it or supplies the empty string;
\* no other step changes the languages.
C27_LanguagesFollowSetup ==
    [][\A s \in Sessions :
          LET created == \E uid \in UserIds : Connection(s, uid)
              setup == \E l \in LangPairs : ClientSetup(s, l[1], l[2])
          IN /\ created => /\ session'[s].sourceLanguage = "en"
                           /\ session'[s].targetLanguage = "hi"
             /\ \A l \in LangPairs :
                   ClientSetup(s, l[1], l[2])
                   => /\ session'[s].sourceLanguage =
                            (IF l[1] = "" THEN "en" ELSE l[1])
                      /\ session'[s].targetLanguage =
                            (IF l[2] = "" THEN "hi" ELSE l[2])
             /\ (~created /\ ~setup)
                => /\ session'[s].sourceLanguage = session[s].sourceLanguage
                   /\ session'[s].targetLanguage = session[s].targetLanguage
      ]_vars

\* a setup with 'fr' and no target, sent upstream as fr/hi, then a setup
\* with no source and 'de'
C27_Witness ==
    \E s \in Sessions :
        /\ upstreamOut[s] # <<>>
        /\ upstreamOut[s][1] = <<1, <<"setup", "fr", "hi">> >>
        /\ session[s].sourceLanguage = "en"
        /\ session[s].targetLanguage = "de"

\* C28: once endSession has started for a session, no step, whether an
\* upstream frame or a client audio frame handled during or after the
\* finalizer's awaits, changes any of the four accumulators.
C28_BuffersFrozenAfterEnd ==
    [][\A s \in Sessions :
          runs[s] # <<>>
          => /\ session'[s].userTranscription = session[s].userTranscription
             /\ session'[s].modelTranscription = session[s].modelTranscription
             /\ session'[s].userAudioChunks = session[s].userAudioChunks
             /\ session'[s].aiAudioChunks = session[s].aiAudioChunks
      ]_vars

InvalidUserFrame == <<"error", "Invalid user. Please restart the app.">>

\* C29: a connection whose user id is not found is rejected: the client is
\* sent one error frame and the socket is closed with code 4002 (or nothing
\* at all when the client has already gone), the session is not in the
\* sessions map, no session_id frame is sent and nothing is ever handled for
\* it; for an accepted connection session_id is the first frame sent.
C29_UnknownUserRejected ==
    \A s \in Sessions :
        /\ phase[s] = "rejected"
           => /\ clientOut[s] \in
                    { <<>>, <<InvalidUserFrame, <<"close", InvalidUserCode>> >> }
              /\ clientWs[s] = "CLOSED"
              /\ s \notin sessions
              /\ FramesTo(s, "session_id") = {}
              /\ session[s] = NewSession(session[s].userId)
              /\ sockets[s] = <<>>
              /\ runs[s] = <<>>
        /\ (phase[s] = "accepted" /\ clientOut[s] # <<>>)
           => clientOut[s][1] = <<"session_id", s>>

C29_Witness ==
    \E s \in Sessions :
        /\ phase[s] = "rejected"
        /\ session[s].userId \in UserIds
        /\ clientOut[s] = <<InvalidUserFrame, <<"close", InvalidUserCode>> >>
        /\ clientWs[s] = "CLOSED"

\* C30: no client event of an accepted connection is lost, the close event
\* included, even when it arrives while validateUserId is pending: whenever
\* the client socket is closed and the session is in the sessions map, an
\* endSession run started by the close is in flight and will remove it.
C30_NoClientEventLost ==
    \A s \in Sessions :
        (clientWs[s] = "CLOSED" /\ s \in sessions)
        => \E r \in RunsOf(s) :
              runs[s][r].trigger = "close" /\ runs[s][r].pc # "done"

====
